---- MODULE Spec2Model ----
(***************************************************************************)
(* Seamhanian Information Portal (src/z.py): the News tab (index rebuild,  *)
(* article overlay), the Upload tab (submission workflow) and the remote   *)
(* message store they talk to.                                             *)
(*                                                                         *)
(* Text is modelled as a sequence of one-character strings, so that        *)
(* str.strip, str.splitlines and "\n".join are computed as Python computes *)
(* them.                                                                   *)
(***************************************************************************)
EXTENDS Integers, Sequences, FiniteSets, TLC

VARIABLES
    DISCORD_TOKEN,       \* TRUE iff the environment supplies a token
    DISCORD_CHANNEL_ID,  \* TRUE iff the environment supplies a channel id
    store,               \* the channel's messages, newest first
    next_id,             \* identifier the store gives to the next message
    mounted,             \* NewsTab.on_mount has run
    list_view,           \* NewsTab.list_view: [id, display, items]
    article_overlay,     \* NewsTab.article_overlay: [display, updated, title, body]
    delete_mode,         \* UploadTab.delete_mode
    status,              \* UploadTab.status (which message it shows)
    crashed,             \* an exception escaped an event handler
    refresh_result,      \* how the most recent load_news ended
    last                 \* what the most recent event handler did

vars == <<DISCORD_TOKEN, DISCORD_CHANNEL_ID, store, next_id, mounted, list_view,
          article_overlay, delete_mode, status, crashed, refresh_result, last>>

----------------------------------------------------------------------------
(* Bounds of the model *)

MaxStore == 2
MaxId == 2

(* Program constants *)

FETCH_LIMIT == 50

----------------------------------------------------------------------------
(* Text *)

SP == " "
LF == "\n"

Untitled == <<"U", "n", "t", "i", "t", "l", "e", "d">>
Unknown == <<"U", "n", "k", "n", "o", "w", "n">>

\* str.isspace on the characters of the model
IsSpace(c) == c \in {SP, LF}

\* ord(c): Python orders strings by code point
Ord(c) ==
    CASE c = LF -> 10
      [] c = SP -> 32
      [] c = "1" -> 49
      [] c = "2" -> 50
      [] c = "a" -> 97
      [] c = "b" -> 98
      [] c = "x" -> 120
      [] OTHER -> 63

RECURSIVE LStrip(_)
LStrip(s) ==
    IF s = <<>> THEN <<>>
    ELSE IF IsSpace(Head(s)) THEN LStrip(Tail(s)) ELSE s

RECURSIVE RStrip(_)
RStrip(s) ==
    IF s = <<>> THEN <<>>
    ELSE IF IsSpace(s[Len(s)]) THEN RStrip(SubSeq(s, 1, Len(s) - 1)) ELSE s

\* str.strip()
Strip(s) == RStrip(LStrip(s))

\* index of the first line break of s, 0 when there is none
RECURSIVE FirstBreak(_, _)
FirstBreak(s, i) ==
    IF i > Len(s) THEN 0
    ELSE IF s[i] = LF THEN i ELSE FirstBreak(s, i + 1)

\* str.splitlines(): no empty last line after a trailing line break
RECURSIVE SplitLines(_)
SplitLines(s) ==
    IF s = <<>> THEN <<>>
    ELSE LET i == FirstBreak(s, 1) IN
         IF i = 0 THEN <<s>>
         ELSE <<SubSeq(s, 1, i - 1)>> \o SplitLines(SubSeq(s, i + 1, Len(s)))

\* "\n".join(lines)
RECURSIVE JoinLines(_)
JoinLines(lines) ==
    IF lines = <<>> THEN <<>>
    ELSE IF Len(lines) = 1 THEN lines[1]
    ELSE lines[1] \o <<LF>> \o JoinLines(Tail(lines))

\* a < b for Python strings
RECURSIVE StrLess(_, _)
StrLess(a, b) ==
    IF b = <<>> THEN FALSE
    ELSE IF a = <<>> THEN TRUE
    ELSE IF Ord(Head(a)) # Ord(Head(b)) THEN Ord(Head(a)) < Ord(Head(b))
    ELSE StrLess(Tail(a), Tail(b))

Take(s, n) == SubSeq(s, 1, IF Len(s) < n THEN Len(s) ELSE n)

----------------------------------------------------------------------------
(* The remote message store and its HTTP interface *)

\* Timestamps of the model.  A digit stands for a fixed-width ISO-8601 text
\* (later digit, later instant), <<"x">> for a text datetime.fromisoformat
\* rejects, <<>> for a message without a timestamp.
NowTimestamp == <<"2">>

Message(id, content, ts) ==
    [id |-> id, has_id |-> TRUE, content |-> content, timestamp |-> ts]

TitleA == <<"a", LF, "a", LF, "b">>    \* title a, author a, body b
TitleB == <<"b", LF, "a">>            \* title b, author a, no body

\* (content, timestamp) of the messages the channel may hold before the run
InitMessages ==
    { <<TitleA, <<"1">> >>, <<TitleB, <<"1">> >>, << <<SP>>, <<"1">> >> }

\* the same with every kind of timestamp: two instants, a text that does not
\* parse, none
NewsMessages ==
    { <<TitleA, <<"1">> >>, <<TitleA, <<"2">> >>, <<TitleA, <<"x">> >>,
      <<TitleA, <<>> >>, <<TitleB, <<"1">> >>, << <<SP>>, <<"1">> >> }

\* contents that the two decoders may read differently: a title without author
\* line, and the content written for a file whose first line is empty
OneLine == <<"a">>
EmptyTitle == <<LF, "a", LF, "a">>

DecodeMessages ==
    { <<TitleA, <<"1">> >>, <<OneLine, <<"1">> >>, <<EmptyTitle, <<"1">> >> }

\* a channel that holds one message more than a list request returns: the
\* oldest message is TitleA, the FETCH_LIMIT newer ones have a two-digit
\* title each and the author a; their identifiers lie above those of the
\* messages created during the run
Digits == <<"0", "1", "2", "3", "4", "5", "6", "7", "8", "9">>

Filler(i) == <<Digits[(i \div 10) + 1], Digits[(i % 10) + 1], LF, "a">>

LimitStore ==
    [i \in 1..(FETCH_LIMIT + 1) |->
        Message(MaxId + FETCH_LIMIT + 2 - i,
                IF i = FETCH_LIMIT + 1 THEN TitleA ELSE Filler(i),
                <<"1">>)]

\* the stores of n messages drawn from pool: newest first, identifiers n .. 1
StoresOfLen(n, pool) ==
    { [i \in 1..n |-> Message(n + 1 - i, f[i][1], f[i][2])] : f \in [1..n -> pool] }

InitialStores == UNION { StoresOfLen(n, InitMessages) : n \in 0..MaxStore }

NewsStores == UNION { StoresOfLen(n, NewsMessages) : n \in 0..MaxStore }

\* channels of such messages with room for one more message
DecodeStores == StoresOfLen(MaxStore - 1, DecodeMessages)

Configured == DISCORD_TOKEN /\ DISCORD_CHANNEL_ID

FailedResponse == [ok |-> FALSE, messages |-> <<>>]

\* response body in which the last message lacks its "id" key
WithoutLastId(msgs) ==
    [i \in 1..Len(msgs) |-> IF i = Len(msgs) THEN [msgs[i] EXCEPT !.has_id = FALSE]
                                             ELSE msgs[i]]

\* what GET /channels/{id}/messages?limit=50 may answer when the channel holds
\* st: a transport failure or non-2xx status, or the newest FETCH_LIMIT
\* messages, well formed or with a malformed message.  Without token or
\* channel id the request is refused.
GetResponses(st) ==
    IF ~Configured THEN {FailedResponse}
    ELSE { FailedResponse,
           [ok |-> TRUE, messages |-> Take(st, FETCH_LIMIT)],
           [ok |-> TRUE, messages |-> WithoutLastId(Take(st, FETCH_LIMIT))] }

WellFormed(resp) == resp.ok /\ \A i \in 1..Len(resp.messages) : resp.messages[i].has_id

\* outcomes of POST, PATCH and DELETE (raise_for_status)
CallOutcomes == {"ok", "fail"}

\* identifiers are unique in the channel
RemoveId(st, id) == SelectSeq(st, LAMBDA m : m.id # id)

EditId(st, id, content) ==
    [i \in 1..Len(st) |-> IF st[i].id = id THEN [st[i] EXCEPT !.content = content]
                                           ELSE st[i]]

----------------------------------------------------------------------------
(* NewsTab.load_news *)

\* datetime.fromisoformat(ts.rstrip("Z")) succeeds
IsIsoFormat(ts) == ts # <<>> /\ \A i \in 1..Len(ts) : ts[i] \in {"1", "2"}

\* the least element of a non-empty set of numbers
Least(S) == CHOOSE i \in S : \A j \in S : i <= j

\* messages.sort(key=lambda m: m.get("timestamp", ""), reverse=True):
\* list.sort is stable, also with reverse=True.  The place of message i in
\* the sorted list: after the messages with a greater timestamp and after
\* the earlier messages with the same timestamp
SortPlace(msgs, i) ==
    1 + Cardinality({ j \in 1..Len(msgs) :
                        IF msgs[j].timestamp = msgs[i].timestamp THEN j < i
                        ELSE StrLess(msgs[i].timestamp, msgs[j].timestamp) })

\* the pairs <<place in the sorted list, position in msgs>>
SortPlaces(msgs) == { <<SortPlace(msgs, i), i>> : i \in 1..Len(msgs) }

SortNewest(msgs) ==
    LET places == SortPlaces(msgs)
        sorted == [k \in 1..Len(msgs) |-> msgs[(CHOOSE p \in places : p[1] = k)[2]]]
    IN SubSeq(sorted, 1, Len(msgs))

\* the ListItem built for one message (its data and its timestamp line)
DecodeItem(m) ==
    LET content == Strip(m.content)
        lines == SplitLines(content)
    IN [kind |-> "news",
        title |-> IF Len(lines) > 0 THEN lines[1] ELSE Untitled,
        author |-> IF Len(lines) > 1 THEN lines[2] ELSE Unknown,
        body |-> IF Len(lines) > 2 THEN JoinLines(SubSeq(lines, 3, Len(lines))) ELSE <<>>,
        discord_id |-> m.id,
        timestamp_display |-> IF IsIsoFormat(m.timestamp) THEN m.timestamp ELSE <<>>]

\* a ListItem that carries a red message and no data
ErrorItem(text) ==
    [kind |-> text, title |-> <<>>, author |-> <<>>, body |-> <<>>,
     discord_id |-> 0, timestamp_display |-> <<>>]

\* the loop over the sorted messages: blank messages are skipped, and
\* msg["id"] raises for a message without identifier, after the earlier
\* messages were appended
AppendItems(msgs, items) ==
    LET Blank(m) == Strip(m.content) = <<>>
        raising == { i \in 1..Len(msgs) : ~Blank(msgs[i]) /\ ~msgs[i].has_id }
        reached == IF raising = {} THEN Len(msgs) ELSE Least(raising) - 1
        appended == SelectSeq(SubSeq(msgs, 1, reached), LAMBDA m : ~Blank(m))
    IN [items |-> items \o [k \in 1..Len(appended) |-> DecodeItem(appended[k])],
        raised |-> raising # {}]

\* the items of the fresh ListView and how the refresh ended
NewsIndex(resp) ==
    IF ~Configured
    THEN [items |-> <<ErrorItem("not_set")>>, result |-> "not_set"]
    ELSE IF ~resp.ok
    THEN [items |-> <<ErrorItem("fetch_error")>>, result |-> "error"]
    ELSE LET built == AppendItems(SortNewest(resp.messages), <<>>) IN
         IF built.raised
         THEN [items |-> Append(built.items, ErrorItem("fetch_error")), result |-> "error"]
         ELSE [items |-> built.items, result |-> "ok"]

\* the HTTP calls load_news makes
LoadNewsCalls == IF Configured THEN <<"GET">> ELSE <<>>

\* load_news that also hides the overlay
LoadNewsHidingOverlay(resp) ==
    /\ LET index == NewsIndex(resp) IN
       /\ list_view' = [id |-> "", display |-> TRUE, items |-> index.items]
       /\ refresh_result' = index.result
    /\ article_overlay' = [article_overlay EXCEPT !.display = FALSE]

\* load_news: the old ListView is removed, a fresh one (no id, displayed) is
\* mounted before the overlay and filled; the overlay is not touched
LoadNews(resp) ==
    /\ LET index == NewsIndex(resp) IN
       /\ list_view' = [id |-> "", display |-> TRUE, items |-> index.items]
       /\ refresh_result' = index.result
    /\ UNCHANGED article_overlay

----------------------------------------------------------------------------
(* Events *)

NoEvent ==
    [op |-> "init", calls |-> <<>>, fetch |-> "none",
     target |-> 0, mutation |-> "none", outcome |-> "none", refreshed |-> FALSE,
     status_updated |-> FALSE, title |-> <<>>, username |-> <<>>, body |-> <<>>,
     new_id |-> 0, was_open |-> FALSE, file_path |-> <<>>,
     isfile |-> FALSE, selected |-> 0, text |-> <<>>]

\* after NewsTab.compose and UploadTab.compose, the channel holding one of
\* stores (no channel, no messages)
InitWith(stores) ==
    /\ DISCORD_TOKEN \in BOOLEAN
    /\ DISCORD_CHANNEL_ID \in BOOLEAN
    /\ store \in (IF Configured THEN stores ELSE {<<>>})
    /\ next_id = Len(store) + 1
    /\ mounted = FALSE
    /\ list_view = [id |-> "", display |-> TRUE, items |-> <<>>]
    /\ article_overlay = [display |-> FALSE, updated |-> FALSE, title |-> <<>>, body |-> <<>>]
    /\ delete_mode = FALSE
    /\ status = "empty"
    /\ crashed = FALSE
    /\ refresh_result = "none"
    /\ last = NoEvent

Running == mounted /\ ~crashed

\* NewsTab.on_mount
Mount ==
    /\ ~mounted /\ ~crashed
    /\ mounted' = TRUE
    /\ \E resp \in GetResponses(store) : LoadNews(resp)
    /\ last' = [NoEvent EXCEPT !.op = "mount", !.calls = LoadNewsCalls, !.refreshed = TRUE]
    /\ UNCHANGED <<DISCORD_TOKEN, DISCORD_CHANNEL_ID, store, next_id, delete_mode,
                   status, crashed>>

\* SIPApp.action_refresh (key r)
ActionRefresh ==
    /\ Running
    /\ \E resp \in GetResponses(store) : LoadNews(resp)
    /\ last' = [NoEvent EXCEPT !.op = "refresh", !.calls = LoadNewsCalls, !.refreshed = TRUE]
    /\ UNCHANGED <<DISCORD_TOKEN, DISCORD_CHANNEL_ID, store, next_id, mounted,
                   delete_mode, status, crashed>>

\* NewsTab.on_list_view_selected for the item at position i of the list
OnListViewSelected(i) ==
    /\ Running
    /\ i \in 1..Len(list_view.items)
    /\ LET selected == list_view.items[i] IN
       IF selected.kind # "news"
       THEN UNCHANGED <<article_overlay, list_view>>
       ELSE /\ article_overlay' = [display |-> TRUE, updated |-> TRUE,
                                   title |-> selected.title, body |-> selected.body]
            /\ list_view' = [list_view EXCEPT !.display = FALSE]
    /\ last' = [NoEvent EXCEPT !.op = "select", !.was_open = article_overlay.display,
                               !.selected = i]
    /\ UNCHANGED <<DISCORD_TOKEN, DISCORD_CHANNEL_ID, store, next_id, mounted,
                   delete_mode, status, crashed, refresh_result>>

\* the test of the close action replaced by TRUE
NewsOverlayAlwaysActive == TRUE

\* SIPApp._news_overlay_active
NewsOverlayActive == article_overlay.display

\* news_tab.query_one("#news_list", expect_type=ListView) finds a widget
QueryNewsListFound == list_view.id = "news_list"

\* SIPApp.action_close_article (key q): the overlay is hidden first; the
\* lookup of "#news_list" then raises NoMatches when no ListView has that id,
\* and the exception leaves the action
ActionCloseArticle ==
    /\ Running
    /\ IF ~NewsOverlayActive
       THEN UNCHANGED <<article_overlay, list_view, crashed>>
       ELSE /\ article_overlay' = [article_overlay EXCEPT !.display = FALSE]
            /\ IF QueryNewsListFound
               THEN /\ list_view' = [list_view EXCEPT !.display = TRUE]
                    /\ UNCHANGED crashed
               ELSE /\ crashed' = TRUE
                    /\ UNCHANGED list_view
    /\ last' = [NoEvent EXCEPT !.op = "close", !.was_open = article_overlay.display]
    /\ UNCHANGED <<DISCORD_TOKEN, DISCORD_CHANNEL_ID, store, next_id, mounted,
                   delete_mode, status, refresh_result>>

\* UploadTab.on_button_pressed
OnButtonPressed ==
    /\ Running
    /\ delete_mode' = ~delete_mode
    /\ last' = [NoEvent EXCEPT !.op = "toggle"]
    /\ UNCHANGED <<DISCORD_TOKEN, DISCORD_CHANNEL_ID, store, next_id, mounted,
                   list_view, article_overlay, status, crashed, refresh_result>>

----------------------------------------------------------------------------
(* UploadTab.on_input_submitted *)

\* File paths are sequences of tokens: a name, an extension, a blank or a
\* quote character.
QUOTE == "\""
APOS == "'"

RECURSIVE LStripChars(_, _)
LStripChars(s, cs) ==
    IF s = <<>> THEN <<>>
    ELSE IF Head(s) \in cs THEN LStripChars(Tail(s), cs) ELSE s

RECURSIVE RStripChars(_, _)
RStripChars(s, cs) ==
    IF s = <<>> THEN <<>>
    ELSE IF s[Len(s)] \in cs THEN RStripChars(SubSeq(s, 1, Len(s) - 1), cs) ELSE s

\* str.strip(chars)
StripChars(s, cs) == RStripChars(LStripChars(s, cs), cs)

\* self.file_input.value.strip().strip('"').strip("'")
CleanPath(raw) == StripChars(StripChars(Strip(raw), {QUOTE}), {APOS})

\* str.lower() on a path token
LowerToken(t) == IF t = ".TXT" THEN ".txt" ELSE t

\* file_path.lower().endswith(".txt")
EndsWithTxt(path) == path # <<>> /\ LowerToken(path[Len(path)]) = ".txt"

\* what the user may have typed in the two inputs
UsernameInputs == {<<>>, <<SP>>, <<"a", SP>>}

PathInputs ==
    { <<>>, <<SP>>, <<"f", ".md">>, <<SP, QUOTE, "f", ".TXT", QUOTE>> }

\* what the file system may hold at the path: whether it is a regular file,
\* whether open/read succeed (OSError, UnicodeDecodeError) and the text read
FileTexts == { <<>>, <<"a", LF, "b", SP>> }

NoFile == [isfile |-> FALSE, read |-> "ok", text |-> <<>>]

\* the files with one of texts as content, next to no file and unreadable files
FilesOf(texts) ==
    { NoFile } \cup
    { [isfile |-> TRUE, read |-> r, text |-> <<>>] : r \in {"oserror", "decode_error"} } \cup
    { [isfile |-> TRUE, read |-> "ok", text |-> t] : t \in texts }

FileInputs == FilesOf(FileTexts)

\* usernames and file contents for the derivation of the item: two authors,
\* files of no, one, two and three lines, with and without a final line break
DeriveUsernames == {<<>>, <<"a">>, <<"b", SP>>}

DeriveTexts ==
    { <<>>, <<"a">>, <<"a", LF, "b", SP>>, <<"b", LF, "a", LF, "b", LF>> }

\* the checks without the test of the extension
ValidateAnyExtension(username, file_path, file) ==
    IF username = <<>> \/ file_path = <<>> THEN "required"
    ELSE IF ~file.isfile THEN "invalid"
    ELSE "ok"

\* lines 215-220: the message of the failed check, or "ok"
Validate(username, file_path, file) ==
    IF username = <<>> \/ file_path = <<>> THEN "required"
    ELSE IF ~file.isfile \/ ~EndsWithTxt(file_path) THEN "invalid"
    ELSE "ok"

\* the derivation with the body taken from all the lines
DeriveItemKeepingTitle(text) ==
    LET lines == SplitLines(text) IN
    [title |-> IF Len(lines) > 0 THEN lines[1] ELSE Untitled,
     body |-> IF Len(lines) > 1 THEN JoinLines(lines) ELSE <<>>]

\* lines 223-225: title and body from the text of the file
DeriveItem(text) ==
    LET lines == SplitLines(text) IN
    [title |-> IF Len(lines) > 0 THEN lines[1] ELSE Untitled,
     body |-> IF Len(lines) > 1 THEN JoinLines(Tail(lines)) ELSE <<>>]

\* f"{title}\n{username}\n{body}"
EncodeContent(title, username, body) == title \o <<LF>> \o username \o <<LF>> \o body

\* the test of lines 237-243 on one message
MatchesMessage(m, title, username) ==
    /\ Strip(m.content) # <<>>
    /\ LET lines_existing == SplitLines(m.content)
           existing_title == IF Len(lines_existing) > 0 THEN lines_existing[1] ELSE <<>>
           existing_author == IF Len(lines_existing) > 1 THEN lines_existing[2] ELSE <<>>
       IN existing_title = title /\ existing_author = username

\* the positions from i on of the messages that pass the test
MatchesFrom(messages, i, title, username) ==
    { k \in i..Len(messages) : MatchesMessage(messages[k], title, username) }

\* lines 235-245: position of target_msg in messages, 0 for None
ScanFrom(messages, i, title, username) ==
    LET matches == MatchesFrom(messages, i, title, username) IN
    IF matches = {} THEN 0 ELSE Least(matches)

\* the scan without its break: the last match is kept
RECURSIVE ScanLast(_, _, _, _)
ScanLast(messages, i, title, username) ==
    IF i = 0 THEN 0
    ELSE IF MatchesMessage(messages[i], title, username) THEN i
    ELSE ScanLast(messages, i - 1, title, username)

FindLastTarget(messages, title, username) ==
    ScanLast(messages, Len(messages), title, username)

FindTarget(messages, title, username) == ScanFrom(messages, 1, title, username)

\* the branching without the test of delete_mode
DispatchIgnoringDelete(found, delete) == IF found THEN "PATCH" ELSE "POST"

\* lines 247-269: the mutating request chosen, "none" when none is made
Dispatch(found, delete) ==
    IF delete THEN (IF found THEN "DELETE" ELSE "none")
    ELSE (IF found THEN "PATCH" ELSE "POST")

\* the status shown when the chosen request did not raise
DoneStatus(mutation) ==
    CASE mutation = "DELETE" -> "deleted"
      [] mutation = "none" -> "nothing_to_delete"
      [] mutation = "PATCH" -> "edited"
      [] mutation = "POST" -> "uploaded"

\* the refresh moved into a finally clause
RefreshAlways(raised) == TRUE

\* lines 271-273 are reached unless something raised inside the try block
ReachesRefresh(raised) == ~raised

\* the store after the request
ApplyMutation(st, mutation, id, content, fresh) ==
    CASE mutation = "DELETE" -> RemoveId(st, id)
      [] mutation = "PATCH" -> EditId(st, id, content)
      [] mutation = "POST" -> <<Message(fresh, content, NowTimestamp)>> \o st
      [] OTHER -> st

\* the end of the handler once the try block is left: the status shown, the
\* store as the requests left it, and the refresh of the News tab when the
\* block ended without an exception
Finish(new_status, new_store, ev, raised) ==
    /\ status' = new_status
    /\ store' = new_store
    /\ next_id' = IF ev.new_id # 0 THEN next_id + 1 ELSE next_id
    /\ crashed' = FALSE
    /\ IF ReachesRefresh(raised)
       THEN /\ \E resp2 \in GetResponses(new_store) : LoadNews(resp2)
            /\ last' = [ev EXCEPT !.refreshed = TRUE, !.calls = ev.calls \o LoadNewsCalls]
       ELSE /\ UNCHANGED <<list_view, refresh_result, article_overlay>>
            /\ last' = ev

\* lines 229-276: the try block, for the answer resp to the list request
Dispatching(username, item, resp, ev) ==
    IF ~resp.ok
    THEN Finish("error", store, [ev EXCEPT !.fetch = "fail"], TRUE)
    ELSE LET t == FindTarget(resp.messages, item.title, username)
             mutation == Dispatch(t # 0, delete_mode)
             content == EncodeContent(item.title, username, item.body)
             fetched == [ev EXCEPT !.fetch = IF WellFormed(resp) THEN "ok" ELSE "malformed"]
         IN
         IF mutation = "none"
         THEN Finish(DoneStatus(mutation), store, fetched, FALSE)
         ELSE IF t # 0 /\ ~resp.messages[t].has_id
         THEN \* target_msg['id'] raises KeyError before the request is made
              Finish("error", store, fetched, TRUE)
         ELSE LET target_id == IF t # 0 THEN resp.messages[t].id ELSE 0
                  called == [fetched EXCEPT !.target = target_id,
                                            !.mutation = mutation,
                                            !.calls = <<"GET", mutation>>]
              IN
              \E outcome \in CallOutcomes :
                 IF outcome = "fail"
                 THEN Finish("error", store, [called EXCEPT !.outcome = "fail"], TRUE)
                 ELSE /\ mutation = "POST" => next_id <= MaxId
                      /\ Finish(DoneStatus(mutation),
                                ApplyMutation(store, mutation, target_id, content, next_id),
                                [called EXCEPT !.outcome = "ok",
                                               !.new_id = IF mutation = "POST"
                                                          THEN next_id ELSE 0],
                                FALSE)

\* usernames and file contents for the comparison of the two decoders: the
\* default author of the index as username, a file whose first line is empty
DecodeUsernames == {<<"a">>, Unknown}

DecodeTexts == { <<"a">>, <<LF, "b">> }

\* the handler, for the values of the two inputs drawn from usernames and
\* paths and the file system holding one of files at the path
SubmittedWith(usernames, paths, files) ==
    /\ \E username_raw \in usernames, path_raw \in paths :
         LET username == Strip(username_raw)
             file_path == CleanPath(path_raw)
         IN
         \E file \in (IF username = <<>> \/ file_path = <<>> THEN {NoFile} ELSE files) :
            LET check == Validate(username, file_path, file)
                item == DeriveItem(file.text)
                ev == [NoEvent EXCEPT !.op = "submit", !.username = username,
                                      !.file_path = file_path, !.isfile = file.isfile]
            IN
            IF check # "ok"
            THEN \* lines 215-220: the message is shown and the handler returns
                 /\ status' = check
                 /\ last' = [ev EXCEPT !.status_updated = TRUE]
                 /\ UNCHANGED <<store, next_id, crashed, list_view, refresh_result,
                                article_overlay>>
            ELSE IF file.read # "ok"
            THEN \* lines 222-223 are outside the try block: open or read raises
                 /\ crashed' = TRUE
                 /\ last' = ev
                 /\ UNCHANGED <<status, store, next_id, list_view, refresh_result,
                                article_overlay>>
            ELSE \E resp \in GetResponses(store) :
                    Dispatching(username, item, resp,
                                [ev EXCEPT !.status_updated = TRUE,
                                           !.text = file.text,
                                           !.title = item.title,
                                           !.body = item.body, !.calls = <<"GET">>])
    /\ UNCHANGED <<DISCORD_TOKEN, DISCORD_CHANNEL_ID, mounted, delete_mode>>

OnInputSubmitted ==
    /\ Running
    /\ SubmittedWith(UsernameInputs, PathInputs, FileInputs)

\* a submission by one of two authors of a file of zero to three lines
OnInputSubmittedDerive ==
    /\ Running
    /\ SubmittedWith(DeriveUsernames, PathInputs, FilesOf(DeriveTexts))

Next ==
    \/ Mount
    \/ ActionRefresh
    \/ \E i \in 1..Len(list_view.items) : OnListViewSelected(i)
    \/ ActionCloseArticle
    \/ OnButtonPressed
    \/ OnInputSubmitted

Init == InitWith(InitialStores)

Spec == Init /\ [][Next]_vars

\* the Upload tab alone: the user never opens an article
NextUpload == Mount \/ ActionRefresh \/ OnButtonPressed \/ OnInputSubmitted

SpecUpload == Init /\ [][NextUpload]_vars

\* the News tab alone: the user never submits
NextNews ==
    \/ Mount
    \/ ActionRefresh
    \/ \E i \in 1..Len(list_view.items) : OnListViewSelected(i)
    \/ ActionCloseArticle

InitNews == InitWith(NewsStores)

SpecNews == InitNews /\ [][NextNews]_vars

\* a submission by an author named like the default author, or of a file
\* whose first line is empty
OnInputSubmittedDecode ==
    /\ Running
    /\ SubmittedWith(DecodeUsernames, PathInputs, FilesOf(DecodeTexts))

\* the Upload tab over a channel whose messages the decoders may read
\* differently
NextDecode == Mount \/ OnButtonPressed \/ OnInputSubmittedDecode

InitDecode == InitWith(DecodeStores)

SpecDecode == InitDecode /\ [][NextDecode]_vars

\* the Upload tab over a channel longer than the fetch limit
InitLimit ==
    /\ DISCORD_TOKEN \in BOOLEAN
    /\ DISCORD_CHANNEL_ID \in BOOLEAN
    /\ store = (IF Configured THEN LimitStore ELSE <<>>)
    /\ next_id = 1
    /\ mounted = FALSE
    /\ list_view = [id |-> "", display |-> TRUE, items |-> <<>>]
    /\ article_overlay = [display |-> FALSE, updated |-> FALSE, title |-> <<>>, body |-> <<>>]
    /\ delete_mode = FALSE
    /\ status = "empty"
    /\ crashed = FALSE
    /\ refresh_result = "none"
    /\ last = NoEvent

\* a submission by the author a of a readable .txt file with the title a
OnInputSubmittedLimit ==
    /\ Running
    /\ SubmittedWith({<<"a">>}, {<<"f", ".txt">>},
                     { [isfile |-> TRUE, read |-> "ok", text |-> t] :
                          t \in { <<"a">>, <<"a", LF, "b">> } })

NextLimit == Mount \/ OnButtonPressed \/ OnInputSubmittedLimit

SpecLimit == InitLimit /\ [][NextLimit]_vars

\* the Upload tab with the richer files, creating and updating only
NextDerive == Mount \/ OnInputSubmittedDerive

\* before the run the channel has room for one more message
InitDerive == InitWith(StoresOfLen(MaxStore - 1, {<<TitleA, <<"1">> >>}))

SpecDerive == InitDerive /\ [][NextDerive]_vars

----------------------------------------------------------------------------
(* Claims about the News tab, checked under SpecNews *)

\* C2: after a select that opened the overlay, the close action leaves the
\* overlay closed and the news list displayed again.
C2_CloseRestoresList ==
    (last.op = "close" /\ last.was_open)
        => (~article_overlay.display /\ list_view.display)

IsErrorItem(item) == item.kind # "news"

\* C3: when a refresh cannot obtain the news list (configuration missing, the
\* request failed, or a message of the response is malformed) the rebuilt
\* index is exactly one error entry, and with missing configuration no
\* request was made.
C3_FailedRefreshIsOneErrorItem ==
    (last.op \in {"mount", "refresh"} /\ refresh_result \in {"not_set", "error"})
        => /\ Len(list_view.items) = 1
           /\ IsErrorItem(list_view.items[1])
           /\ (refresh_result = "not_set" => last.calls = <<>>)

HasTimestamp(item) == item.timestamp_display # <<>>

\* position in the channel of the message with this identifier
PositionOf(id) == CHOOSE i \in 1..Len(store) : store[i].id = id

\* C5: after a successful refresh the items with a timestamp are in
\* non-increasing order of timestamp, the items without a usable timestamp
\* come after all of them, and items with equal or missing timestamps are in
\* the order the backend returned them.
C5_IndexNewestFirst ==
    (last.op \in {"mount", "refresh"} /\ refresh_result = "ok")
        => \A i, j \in 1..Len(list_view.items) :
              i < j =>
                 LET x == list_view.items[i]
                     y == list_view.items[j]
                 IN /\ (HasTimestamp(x) /\ HasTimestamp(y))
                          => ~StrLess(x.timestamp_display, y.timestamp_display)
                    /\ HasTimestamp(y) => HasTimestamp(x)
                    /\ (x.timestamp_display = y.timestamp_display)
                          => PositionOf(x.discord_id) < PositionOf(y.discord_id)

\* C8: a refresh, however it ends, leaves the overlay as it was: open on the
\* same article, or closed.
C8_RefreshKeepsOverlay ==
    [][last'.op \in {"mount", "refresh"} => article_overlay' = article_overlay]_vars

C8_Witness ==
    /\ last.op = "refresh"
    /\ article_overlay.display
    /\ refresh_result = "error"

\* the overlay open on the article of a list item
OpenOn(item) ==
    [display |-> TRUE, updated |-> TRUE, title |-> item.title, body |-> item.body]

\* C12: the close action on a closed overlay changes nothing (the overlay
\* stays closed, the list, its visibility and the index are unchanged, the
\* application keeps running); a select of an article leaves the overlay
\* open on that article, whether the overlay was closed, open on the same
\* article or open on another one.
C12_OverlayIdempotence ==
    [][/\ (last'.op = "close" /\ ~article_overlay.display)
            => /\ ~article_overlay'.display
               /\ UNCHANGED <<article_overlay, list_view, store, crashed>>
       /\ (last'.op = "select" /\ list_view.items[last'.selected].kind = "news")
            => /\ article_overlay' = OpenOn(list_view.items[last'.selected])
               /\ UNCHANGED <<store, crashed>>
               /\ list_view'.items = list_view.items]_vars

\* an article was selected while the overlay was open on another article
C12_Witness ==
    /\ last.op = "select" /\ last.was_open
    /\ article_overlay.display
    /\ list_view.items[last.selected].kind = "news"
    /\ \E j \in 1..Len(list_view.items) :
          /\ j # last.selected
          /\ list_view.items[j].kind = "news"
          /\ list_view.items[j].title # article_overlay.title

\* C13: in every reachable state exactly one of the news list and the
\* article overlay is visible: the list is displayed if and only if the
\* overlay is closed.
C13_ExactlyOneVisible ==
    list_view.display <=> ~article_overlay.display

----------------------------------------------------------------------------
(* Claims about the submission workflow, checked under SpecUpload *)

\* the create, update and delete requests among the calls of the latest handler
MutatingCalls(calls) == SelectSeq(calls, LAMBDA c : c # "GET")

\* the first line of the message is the title and its second line the username
IsEntryOf(m, title, username) ==
    LET ls == SplitLines(m.content) IN
    Len(ls) >= 2 /\ ls[1] = title /\ ls[2] = username

\* C1: for a valid submission whose list fetch succeeded, the mutating call is
\* a function of (match found, delete mode): match and delete mode, one
\* delete; no match and delete mode, the "nothing to delete" status and no
\* mutating call; match without delete mode, one update; neither, one create.
C1_DispatchTable ==
    [][(last'.op = "submit" /\ last'.fetch = "ok") =>
          LET found == \E i \in 1..Len(store) :
                          IsEntryOf(store[i], last'.title, last'.username)
              made == MutatingCalls(last'.calls)
          IN /\ (found /\ delete_mode) => made = <<"DELETE">>
             /\ (~found /\ delete_mode) =>
                   (made = <<>> /\ status' = "nothing_to_delete")
             /\ (found /\ ~delete_mode) => made = <<"PATCH">>
             /\ (~found /\ ~delete_mode) => made = <<"POST">>]_vars

C1_Witness ==
    /\ last.op = "submit" /\ last.fetch = "ok"
    /\ delete_mode
    /\ MutatingCalls(last.calls) = <<"DELETE">>
    /\ status = "deleted"

\* C4: every submission ends with a status message shown, and no failure
\* leaves the handler as an exception.
C4_SubmissionNeverRaises ==
    last.op = "submit" => (last.status_updated /\ ~crashed)

\* C6: an item created by a submission and fetched back by the refresh is
\* listed with the title, author and body that were submitted.
C6_CreateFetchDisplayRoundTrip ==
    (/\ last.op = "submit" /\ last.new_id # 0
     /\ last.refreshed /\ refresh_result = "ok")
        => \E i \in 1..Len(list_view.items) :
              LET item == list_view.items[i] IN
              /\ item.discord_id = last.new_id
              /\ item.title = last.title
              /\ item.author = last.username
              /\ item.body = last.body

\* the submission has an empty username or path, a path that is no file, or
\* a path that does not end in .txt
FailsValidation ==
    \/ last.username = <<>>
    \/ last.file_path = <<>>
    \/ ~last.isfile
    \/ last.file_path[Len(last.file_path)] \notin {".txt", ".TXT"}

\* C7: a submission that fails validation shows a validation message and
\* makes no network call and no refresh.
C7_InvalidSubmissionMakesNoCall ==
    (last.op = "submit" /\ FailsValidation)
        => /\ status \in {"required", "invalid"}
           /\ last.status_updated
           /\ last.calls = <<>>
           /\ ~last.refreshed
           /\ ~crashed

C7_Witness ==
    /\ last.op = "submit"
    /\ last.username # <<>> /\ last.isfile
    /\ last.file_path # <<>> /\ last.file_path[Len(last.file_path)] = ".md"
    /\ status = "invalid"

SuccessStatus == {"deleted", "edited", "uploaded"}

C10_FirstMatchOnly ==
    [][(last'.op = "submit" /\ last'.fetch = "ok" /\ last'.outcome = "ok") =>
          LET Entry(i) == IsEntryOf(store[i], last'.title, last'.username)
              content == last'.title \o <<LF>> \o last'.username \o <<LF>> \o last'.body
          IN IF last'.mutation = "POST"
             THEN \A i \in 1..Len(store) : ~Entry(i)
             ELSE \E t \in 1..Len(store) :
                     /\ Entry(t)
                     /\ \A j \in 1..(t - 1) : ~Entry(j)
                     /\ last'.target = store[t].id
                     /\ IF last'.mutation = "DELETE"
                        THEN store' = SubSeq(store, 1, t - 1) \o SubSeq(store, t + 1, Len(store))
                        ELSE /\ Len(store') = Len(store)
                             /\ store'[t] = [store[t] EXCEPT !.content = content]
                             /\ \A i \in 1..Len(store) : i # t => store'[i] = store[i]]_vars

C10_Witness ==
    /\ last.op = "submit" /\ last.fetch = "ok" /\ last.outcome = "ok"
    /\ last.mutation = "PATCH"
    /\ Len(store) = 2
    /\ \A i \in 1..2 : IsEntryOf(store[i], last.title, last.username)
    /\ store[1].id = last.target
    /\ store[1].content # store[2].content

----------------------------------------------------------------------------
(* Claims about the derivation of the item, checked under SpecDerive *)

\* the submission passed the checks and its file was read
ReadFile ==
    /\ last.op = "submit" /\ ~FailsValidation /\ ~crashed

\* C11: the item derived from a submitted file has the first line of the
\* file as title and the remaining lines, joined with line breaks, as body;
\* a file without lines gives the title "Untitled" and an empty body; in
\* both cases the submission is dispatched (the list request is made and no
\* validation message is shown).  Title and body are determined by the text
\* of the file alone, whatever the username.
C11_DerivedItem ==
    ReadFile =>
        LET ls == SplitLines(last.text) IN
        /\ ls # <<>> => /\ last.title = ls[1]
                        /\ last.body = JoinLines(SubSeq(ls, 2, Len(ls)))
        /\ ls = <<>> => /\ last.title = Untitled
                        /\ last.body = <<>>
        /\ last.calls # <<>> /\ last.calls[1] = "GET"
        /\ status \notin {"required", "invalid"}

\* a file of three lines submitted by the second author was created
C11_Witness ==
    /\ ReadFile
    /\ last.username = <<"b">>
    /\ Len(SplitLines(last.text)) = 3
    /\ last.body = <<"a", LF, "b">>
    /\ status = "uploaded"

\* an empty file was accepted and created
C11_WitnessEmpty ==
    /\ ReadFile
    /\ last.text = <<>>
    /\ last.title = Untitled
    /\ status = "uploaded"

----------------------------------------------------------------------------
(* Claims about the two decoders, checked under SpecDecode *)

\* the index lists message m under (title, author)
ListedUnder(m, title, author) ==
    /\ Strip(m.content) # <<>>
    /\ DecodeItem(m).title = title
    /\ DecodeItem(m).author = author

\* C14: the index and the match rule decode a message alike: when the index
\* lists a message of the channel under the submitted (title, username), the
\* submission finds a match (it updates or deletes, it does not create), and
\* the message a submission matches is listed in the index under the
\* submitted (title, username).
C14_SameDecoding ==
    [][(last'.op = "submit" /\ last'.fetch = "ok") =>
          \A i \in 1..Len(store) :
             /\ ListedUnder(store[i], last'.title, last'.username)
                   => (last'.target # 0 /\ last'.mutation \in {"PATCH", "DELETE"})
             /\ last'.target = store[i].id
                   => ListedUnder(store[i], last'.title, last'.username)]_vars

----------------------------------------------------------------------------
(* Claims about a channel longer than the fetch limit, checked under SpecLimit *)

\* (title, author) of a message: its first two lines
EntryKey(m) ==
    LET ls == SplitLines(m.content) IN
    <<IF Len(ls) > 0 THEN ls[1] ELSE <<>>, IF Len(ls) > 1 THEN ls[2] ELSE <<>> >>

\* C15: with one client and a channel that starts without two messages of
\* the same (title, author), the channel never holds two messages of the
\* same (title, author), also when it holds more messages than a list
\* request returns.
C15_OneMessagePerKey ==
    \A i, j \in 1..Len(store) :
       i < j => EntryKey(store[i]) # EntryKey(store[j])

====
